---- MODULE Spec2Model ----
(***************************************************************************)
(* Model of spark-app/positional_index.py: the key normaliser, the         *)
(* tokenizer, the per-document positional index builder and the driver     *)
(* main() with its Spark actions and its psycopg2 write phase.             *)
(*                                                                         *)
(* Characters are Unicode code points, byte strings are sequences of       *)
(* 0..255, Python str values are sequences of code points.                 *)
(***************************************************************************)
EXTENDS Integers, Sequences, FiniteSets, TLC

\* ------------------------------------------------------------------ bounds
\* longest run of one character in a generated secret (two runs per secret)
MaxRun == 17
\* longest generated text handed to tokenize_text / build_positional_index
MaxTextLen == 5
\* largest doc_id of the documents table
MaxDocs == 2
\* rows per round trip of execute_values; the program uses 1000, scaled down
\* so that a batch of a few rows is split over several pages
PageSize == 2


\* ------------------------------------------------------------------- state
VARIABLES
    \* the function harness: one call of normalize_key, or of tokenize_text
    \* followed by build_positional_index, on a generated argument
    fpc, arg_key, key_out, arg_text, tokens_out, index_out,
    \* main(): position, environment, locals
    pc, encryption_key, aes_key, index_data, cursor_pos, error_stage,
    \* the Spark session and the two jobs (docs.count() and collect())
    spark, count_done, count_pass, map_done, map_out,
    \* the PostgreSQL server: documents table, committed positional_index,
    \* the open transaction of the psycopg2 connection, the connection
    documents, positional_index, txn, conn,
    \* history: table content before the run, calls made by the run
    pre_run, decrypt_calls, tokenize_calls, write_attempts, spark_stops

fvars == <<fpc, arg_key, key_out, arg_text, tokens_out, index_out>>
mvars == <<pc, encryption_key, aes_key, index_data, cursor_pos, error_stage,
           spark, count_done, count_pass, map_done, map_out,
           documents, positional_index, txn, conn,
           pre_run, decrypt_calls, tokenize_calls, write_attempts, spark_stops>>
vars == <<fvars, mvars>>

\* ------------------------------------------------------------ value helpers
\* Python None / str argument of tokenize_text and build_positional_index
None == [none |-> TRUE]
Str(s) == [none |-> FALSE, s |-> s]

\* truthiness of an optional str: None and '' are falsy
Truthy(text) == (~text.none) /\ text.s # <<>>

RECURSIVE Repeat(_, _)
Repeat(c, n) == IF n <= 0 THEN <<>> ELSE <<c>> \o Repeat(c, n - 1)

Range(s) == {s[i] : i \in 1..Len(s)}

\* ------------------------------------------------------------ normalize_key
\* str.encode('utf-8') of one code point
Utf8Char(c) ==
    IF c < 128 THEN <<c>>
    ELSE IF c < 2048 THEN <<192 + (c \div 64), 128 + (c % 64)>>
    ELSE IF c < 65536 THEN
        <<224 + (c \div 4096), 128 + ((c \div 64) % 64), 128 + (c % 64)>>
    ELSE <<240 + (c \div 262144), 128 + ((c \div 4096) % 64),
           128 + ((c \div 64) % 64), 128 + (c % 64)>>

RECURSIVE encode_utf8(_)
encode_utf8(s) == IF s = <<>> THEN <<>> ELSE Utf8Char(Head(s)) \o encode_utf8(Tail(s))

\* bytes.ljust(width, fill)
ljust(b, width, fill) == b \o Repeat(fill, width - Len(b))

\* b[:n]
Prefix(b, n) == SubSeq(b, 1, IF Len(b) < n THEN Len(b) ELSE n)

\* the fill byte of line 30 is b'0', the ASCII digit zero
FillByte == 48
KeyLen == 32

normalize_key_notrunc(key_value) ==
    LET key_bytes == encode_utf8(key_value)
    IN IF Len(key_bytes) < KeyLen THEN ljust(key_bytes, KeyLen, FillByte)
       ELSE key_bytes

normalize_key(key_value) ==
    LET key_bytes == encode_utf8(key_value)
        padded == IF Len(key_bytes) < KeyLen THEN ljust(key_bytes, KeyLen, FillByte)
                  ELSE key_bytes
    IN Prefix(padded, KeyLen)

\* ------------------------------------------------------------ tokenize_text
\* str.lower() of one code point (full Unicode case mapping, restricted to
\* the characters the model generates): A-Z, Latin-1 capitals, KELVIN SIGN
\* U+212A -> 'k', LATIN CAPITAL LETTER I WITH DOT ABOVE U+0130 -> 'i' U+0307
LowerChar(c) ==
    IF c \in 65..90 THEN <<c + 32>>
    ELSE IF c \in (192..222) \ {215} THEN <<c + 32>>
    ELSE IF c = 8490 THEN <<107>>
    ELSE IF c = 304 THEN <<105, 775>>
    ELSE <<c>>

RECURSIVE lower(_)
lower(s) == IF s = <<>> THEN <<>> ELSE LowerChar(Head(s)) \o lower(Tail(s))

\* the character class [a-z0-9]
InClass(c) == c \in 97..122 \/ c \in 48..57

\* re.findall(r'[a-z0-9]+', s): the maximal runs of class characters, left
\* to right; cur is the run being read
RECURSIVE findall(_, _)
findall(s, cur) ==
    IF s = <<>> THEN (IF cur = <<>> THEN <<>> ELSE <<cur>>)
    ELSE IF InClass(Head(s)) THEN findall(Tail(s), Append(cur, Head(s)))
    ELSE (IF cur = <<>> THEN <<>> ELSE <<cur>>) \o findall(Tail(s), <<>>)

tokenize_text(text) ==
    IF ~Truthy(text) THEN <<>>
    ELSE findall(lower(text.s), <<>>)

\* --------------------------------------------------- build_positional_index
\* a Python dict in insertion order: a sequence of <<term, positions>>
HasKey(d, k) == \E i \in 1..Len(d) : d[i][1] = k

DictAppend_overwrite(d, token, position) ==
    IF HasKey(d, token)
    THEN [i \in 1..Len(d) |->
            IF d[i][1] = token THEN <<token, <<position>>>> ELSE d[i]]
    ELSE Append(d, <<token, <<position>>>>)

\* term_positions[token].append(position), creating the list first if absent
DictAppend(d, token, position) ==
    IF HasKey(d, token)
    THEN [i \in 1..Len(d) |->
            IF d[i][1] = token THEN <<token, Append(d[i][2], position)>> ELSE d[i]]
    ELSE Append(d, <<token, <<position>>>>)

\* the loop of lines 66-69 over enumerate(tokens), from 0-based position
RECURSIVE IndexLoop(_, _, _)
IndexLoop(tokens, position, term_positions) ==
    IF position >= Len(tokens) THEN term_positions
    ELSE IndexLoop(tokens, position + 1,
                   DictAppend(term_positions, tokens[position + 1], position))

build_positional_index(text) ==
    IF ~Truthy(text) THEN <<>>
    ELSE IndexLoop(tokenize_text(text), 0, <<>>)

\* --------------------------------------------------------- decrypt_document
\* Hex strings are modelled by the byte strings they denote (bytes.fromhex).
\* AES-256-GCM is abstracted: the keystream is one mask byte taken from the
\* key, and a tag is genuine (<<1>>) or not; a genuine tag verifies only
\* under the key the document was encrypted with.
Secret == <<107, 101, 121>>
WrongSecret == <<120>>
SourceKey == normalize_key(Secret)

GcmEncrypt(key_bytes, plain) == [i \in 1..Len(plain) |-> (plain[i] + key_bytes[1]) % 256]
GcmDecrypt(key_bytes, ct) == [i \in 1..Len(ct) |-> (ct[i] - key_bytes[1] + 256) % 256]
GenuineTag == <<1>>
ForgedTag == <<2>>
GcmVerify(key_bytes, tag) == tag = GenuineTag /\ key_bytes = SourceKey

IsCont(b) == b \in 128..191

\* bytes.decode('utf-8'): well-formed 1-, 2-, 3- and 4-byte sequences
RECURSIVE Utf8Valid(_)
Utf8Valid(b) ==
    IF b = <<>> THEN TRUE
    ELSE IF b[1] < 128 THEN Utf8Valid(Tail(b))
    ELSE IF b[1] \in 194..223
        THEN Len(b) >= 2 /\ IsCont(b[2]) /\ Utf8Valid(SubSeq(b, 3, Len(b)))
    ELSE IF b[1] \in 224..239
        THEN /\ Len(b) >= 3 /\ IsCont(b[2]) /\ IsCont(b[3])
             /\ (b[1] = 224 => b[2] >= 160)
             /\ (b[1] = 237 => b[2] < 160)
             /\ Utf8Valid(SubSeq(b, 4, Len(b)))
    ELSE IF b[1] \in 240..244
        THEN /\ Len(b) >= 4 /\ IsCont(b[2]) /\ IsCont(b[3]) /\ IsCont(b[4])
             /\ (b[1] = 240 => b[2] >= 144)
             /\ (b[1] = 244 => b[2] < 144)
             /\ Utf8Valid(SubSeq(b, 5, Len(b)))
    ELSE FALSE

RECURSIVE decode_utf8(_)
decode_utf8(b) ==
    IF b = <<>> THEN <<>>
    ELSE IF b[1] < 128 THEN <<b[1]>> \o decode_utf8(Tail(b))
    ELSE IF b[1] < 224
        THEN <<(b[1] - 192) * 64 + (b[2] - 128)>> \o decode_utf8(SubSeq(b, 3, Len(b)))
    ELSE IF b[1] < 240
        THEN <<(b[1] - 224) * 4096 + (b[2] - 128) * 64 + (b[3] - 128)>>
             \o decode_utf8(SubSeq(b, 4, Len(b)))
    ELSE <<(b[1] - 240) * 262144 + (b[2] - 128) * 4096 + (b[3] - 128) * 64
           + (b[4] - 128)>> \o decode_utf8(SubSeq(b, 5, Len(b)))

\* a call's outcome: an exception, or the returned str
Raise == [raised |-> TRUE, value |-> <<>>]
Return(v) == [raised |-> FALSE, value |-> v]

decrypt_document(encrypted_hex, iv_hex, auth_tag_hex, key_bytes) ==
    IF encrypted_hex = <<>> \/ iv_hex = <<>> \/ auth_tag_hex = <<>> THEN Return(<<>>)
    ELSE IF ~GcmVerify(key_bytes, auth_tag_hex) THEN Raise
    ELSE LET plaintext == GcmDecrypt(key_bytes, encrypted_hex)
         IN IF Utf8Valid(plaintext) THEN Return(decode_utf8(plaintext)) ELSE Raise

decrypt_with_key_skip(encrypted, iv_value, auth_tag_value, key_bytes) ==
    LET r == decrypt_document(encrypted, iv_value, auth_tag_value, key_bytes)
    IN IF r.raised THEN Return(<<>>) ELSE r

\* the UDF of lines 118-122: any exception is re-raised as RuntimeError
decrypt_with_key(encrypted, iv_value, auth_tag_value, key_bytes) ==
    LET r == decrypt_document(encrypted, iv_value, auth_tag_value, key_bytes)
    IN IF r.raised THEN Raise ELSE r

\* the filter of line 131: content IS NOT NULL AND content != ''
PassesFilter(content) == content # <<>>

\* ------------------------------------------------------ the documents table
DocIds == 1..MaxDocs

Doc(plain, iv, tag) ==
    [encrypted_content |-> GcmEncrypt(SourceKey, plain), iv |-> iv, auth_tag |-> tag]

Nonce == <<9>>
\* "A b a", "b", ",", and a byte string that is no UTF-8
PlainABA == encode_utf8(<<65, 32, 98, 32, 97>>)
PlainB == encode_utf8(<<98>>)
PlainPunct == encode_utf8(<<44>>)
PlainBadUtf8 == <<255>>

DocKinds ==
    { Doc(PlainABA, Nonce, GenuineTag),
      Doc(PlainB, Nonce, GenuineTag),
      Doc(PlainPunct, Nonce, GenuineTag),
      Doc(<<>>, Nonce, GenuineTag),
      Doc(PlainB, <<>>, GenuineTag),
      Doc(PlainB, Nonce, <<>>),
      Doc(PlainB, Nonce, ForgedTag),
      Doc(PlainBadUtf8, Nonce, GenuineTag) }

\* doc_id is unique: the table is a function from the doc_ids present
Collections == UNION {[ids -> DocKinds] : ids \in SUBSET DocIds}

\* rows left in positional_index by earlier runs: a stale position list of
\* document 1 and a row of a document that no longer exists
StaleRows == { <<(<<97>>), 1, <<7>>>>, <<(<<122>>), 9, <<0>>>> }
PreRunTables == { {}, {<<(<<97>>), 1, <<7>>>>}, StaleRows }

\* ------------------------------------------------ the positional_index table
\* A table is a set of rows <<term, doc_id, positions>>, unique on
\* (term, doc_id).  The psycopg2 connection is not in autocommit mode: its
\* first statement opens a transaction, whose effects reach the committed
\* table only at conn.commit().
IdleTxn == [state |-> "idle", rows |-> {}]

SameKey(r, q) == r[1] = q[1] /\ r[2] = q[2]

\* INSERT ... ON CONFLICT (term, doc_id) DO UPDATE SET positions = EXCLUDED.positions
UpsertRow(rows, r) == {q \in rows : ~SameKey(q, r)} \cup {r}

RECURSIVE UpsertAll(_, _)
UpsertAll(rows, page) ==
    IF page = <<>> THEN rows ELSE UpsertAll(UpsertRow(rows, Head(page)), Tail(page))

\* one statement may not touch the same (term, doc_id) twice
PageHasDuplicate(page) ==
    \E i, j \in 1..Len(page) : i # j /\ SameKey(page[i], page[j])

DbDelete_autocommit(committed) ==
    [committed |-> {}, txn |-> IdleTxn]

DbDelete_noclear(committed) ==
    [committed |-> committed, txn |-> [state |-> "active", rows |-> committed]]

\* cursor.execute("DELETE FROM positional_index") as the first statement of
\* the connection: begins the transaction and removes every row in its view
DbDelete(committed) ==
    [committed |-> committed, txn |-> [state |-> "active", rows |-> {}]]

\* one page of execute_values inside the open transaction
DbInsertPage(t, page) == [state |-> "active", rows |-> UpsertAll(t.rows, page)]

\* a failed statement aborts the transaction; nothing of it is kept
DbAbort(t) == [state |-> "aborted", rows |-> {}]

\* insert_data of line 176: (row.term, row.doc_id, row.positions)
InsertTuple(row) == <<row.term, row.doc_id, row.positions>>
insert_data == [i \in 1..Len(index_data) |-> InsertTuple(index_data[i])]

Min(a, b) == IF a < b THEN a ELSE b
NextPage == SubSeq(insert_data, cursor_pos + 1, Min(cursor_pos + PageSize, Len(insert_data)))

\* ------------------------------------------------------------ the Spark jobs
DocContent(d) ==
    decrypt_with_key(documents[d].encrypted_content, documents[d].iv,
                     documents[d].auth_tag, aes_key)

\* build_index_udf + explode + select of lines 149-159 for one document
ExplodeIndex(d, content) ==
    LET index == build_positional_index(Str(content))
    IN [i \in 1..Len(index) |->
            [doc_id |-> d, term |-> index[i][1], positions |-> index[i][2]]]

RECURSIVE ConcatFrom(_, _)
ConcatFrom(out, d) == IF d > MaxDocs THEN <<>> ELSE out[d] \o ConcatFrom(out, d + 1)

\* a task of docs.count() runs once for each document
CountPending(d) == d \in DOMAIN documents /\ d \notin count_done

CollectComplete_any == map_done # {}

\* collect() returns when the task of every document has finished
CollectComplete == map_done = DOMAIN documents

NoDecryptable_never(processed_count) == FALSE

\* line 136
NoDecryptable(processed_count) == processed_count = 0

Bump(f, d) == [f EXCEPT ![d] = @ + 1]

\* ------------------------------------------------------------------- main()
MainUnchangedDb == UNCHANGED <<documents, pre_run>>
JobUnchanged == UNCHANGED <<count_done, count_pass, map_done, map_out>>
DbWriteUnchanged == UNCHANGED <<positional_index, txn, conn, cursor_pos, write_attempts>>

\* lines 80-92
Start ==
    /\ pc = "start"
    /\ IF encryption_key = <<>>
       THEN /\ pc' = "raised"
            /\ UNCHANGED <<aes_key, spark>>
       ELSE /\ aes_key' = normalize_key(encryption_key)
            /\ spark' = "active"
            /\ pc' = "load"
    /\ UNCHANGED <<fvars, encryption_key, index_data, error_stage, spark_stops,
                   decrypt_calls, tokenize_calls>>
    /\ JobUnchanged /\ DbWriteUnchanged /\ MainUnchangedDb

\* lines 100-115: the JDBC read and documents_df.count()
LoadAndCount ==
    /\ pc = "load"
    /\ \E jdbc_ok \in BOOLEAN :
        IF ~jdbc_ok
        THEN /\ pc' = "except" /\ error_stage' = "load"
             /\ UNCHANGED <<spark, spark_stops>>
        ELSE LET doc_count == Cardinality(DOMAIN documents)
             IN IF doc_count = 0
                THEN /\ spark' = "stopped" /\ spark_stops' = spark_stops + 1
                     /\ pc' = "finally"
                     /\ UNCHANGED error_stage
                ELSE /\ pc' = "counting"
                     /\ UNCHANGED <<spark, spark_stops, error_stage>>
    /\ UNCHANGED <<fvars, encryption_key, aes_key, index_data, decrypt_calls, tokenize_calls>>
    /\ JobUnchanged /\ DbWriteUnchanged /\ MainUnchangedDb

\* one task of docs.count() (line 133): decrypt and filter one document
CountTask(d) ==
    /\ pc = "counting"
    /\ CountPending(d)
    /\ decrypt_calls' = Bump(decrypt_calls, d)
    /\ LET r == DocContent(d)
       IN IF r.raised
          THEN /\ pc' = "except" /\ error_stage' = "decrypt"
               /\ UNCHANGED <<count_done, count_pass>>
          ELSE /\ count_done' = count_done \cup {d}
               /\ count_pass' = IF PassesFilter(r.value) THEN count_pass \cup {d}
                                ELSE count_pass
               /\ UNCHANGED <<pc, error_stage>>
    /\ UNCHANGED <<fvars, encryption_key, aes_key, index_data, spark, spark_stops,
                   map_done, map_out, tokenize_calls>>
    /\ DbWriteUnchanged /\ MainUnchangedDb

\* lines 133-139: processed_count and the early return
CountFinish ==
    /\ pc = "counting"
    /\ count_done = DOMAIN documents
    /\ IF NoDecryptable(Cardinality(count_pass))
       THEN /\ spark' = "stopped" /\ spark_stops' = spark_stops + 1
            /\ pc' = "finally"
       ELSE /\ pc' = "collecting"
            /\ UNCHANGED <<spark, spark_stops>>
    /\ UNCHANGED <<fvars, encryption_key, aes_key, index_data, error_stage,
                   decrypt_calls, tokenize_calls>>
    /\ JobUnchanged /\ DbWriteUnchanged /\ MainUnchangedDb

\* one task of exploded_df.collect() (line 162): the plan is evaluated
\* again from the JDBC read, so the document is decrypted again, filtered,
\* and its index built and exploded
MapTask(d) ==
    /\ pc = "collecting"
    /\ d \in DOMAIN documents /\ d \notin map_done
    /\ decrypt_calls' = Bump(decrypt_calls, d)
    /\ LET r == DocContent(d)
       IN IF r.raised
          THEN /\ pc' = "except" /\ error_stage' = "decrypt"
               /\ UNCHANGED <<map_done, map_out, tokenize_calls>>
          ELSE /\ map_done' = map_done \cup {d}
               /\ IF PassesFilter(r.value)
                  THEN /\ map_out' = [map_out EXCEPT ![d] = ExplodeIndex(d, r.value)]
                       /\ tokenize_calls' = Bump(tokenize_calls, d)
                  ELSE UNCHANGED <<map_out, tokenize_calls>>
               /\ UNCHANGED <<pc, error_stage>>
    /\ UNCHANGED <<fvars, encryption_key, aes_key, index_data, spark, spark_stops,
                   count_done, count_pass>>
    /\ DbWriteUnchanged /\ MainUnchangedDb

\* line 162 returns: index_data is the rows of all tasks
CollectFinish ==
    /\ pc = "collecting"
    /\ CollectComplete
    /\ index_data' = ConcatFrom(map_out, 1)
    /\ pc' = "connect"
    /\ UNCHANGED <<fvars, encryption_key, aes_key, error_stage, spark, spark_stops,
                   decrypt_calls, tokenize_calls>>
    /\ JobUnchanged /\ DbWriteUnchanged /\ MainUnchangedDb

\* lines 168-169
Connect ==
    /\ pc = "connect"
    /\ \E ok \in BOOLEAN :
        IF ok THEN /\ conn' = "open" /\ pc' = "delete" /\ UNCHANGED error_stage
        ELSE /\ pc' = "except" /\ error_stage' = "connect" /\ UNCHANGED conn
    /\ UNCHANGED <<fvars, encryption_key, aes_key, index_data, spark, spark_stops,
                   decrypt_calls, tokenize_calls, positional_index, txn, cursor_pos,
                   write_attempts>>
    /\ JobUnchanged /\ MainUnchangedDb

\* line 172; an empty insert_data makes execute_values send nothing
Delete ==
    /\ pc = "delete"
    /\ write_attempts' = write_attempts + 1
    /\ \E ok \in BOOLEAN :
        IF ok
        THEN LET db == DbDelete(positional_index)
             IN /\ positional_index' = db.committed
                /\ txn' = db.txn
                /\ pc' = IF Len(insert_data) = 0 THEN "commit" ELSE "insert"
                /\ UNCHANGED error_stage
        ELSE /\ txn' = DbAbort(txn)
             /\ pc' = "except" /\ error_stage' = "delete"
             /\ UNCHANGED positional_index
    /\ UNCHANGED <<fvars, encryption_key, aes_key, index_data, spark, spark_stops,
                   decrypt_calls, tokenize_calls, conn, cursor_pos>>
    /\ JobUnchanged /\ MainUnchangedDb

\* lines 179-189: one page of execute_values
InsertPage ==
    /\ pc = "insert"
    /\ cursor_pos < Len(insert_data)
    /\ \E ok \in BOOLEAN :
        IF ok /\ ~PageHasDuplicate(NextPage)
        THEN /\ txn' = DbInsertPage(txn, NextPage)
             /\ cursor_pos' = cursor_pos + Len(NextPage)
             /\ pc' = IF cursor_pos + Len(NextPage) < Len(insert_data)
                      THEN "insert" ELSE "commit"
             /\ UNCHANGED error_stage
        ELSE /\ txn' = DbAbort(txn)
             /\ pc' = "except" /\ error_stage' = "insert"
             /\ UNCHANGED cursor_pos
    /\ UNCHANGED <<fvars, encryption_key, aes_key, index_data, spark, spark_stops,
                   decrypt_calls, tokenize_calls, positional_index, conn, write_attempts>>
    /\ JobUnchanged /\ MainUnchangedDb

\* line 191
Commit ==
    /\ pc = "commit"
    /\ \E ok \in BOOLEAN :
        IF ok
        THEN /\ positional_index' = txn.rows
             /\ txn' = IdleTxn
             /\ pc' = "stats"
             /\ UNCHANGED error_stage
        ELSE /\ txn' = DbAbort(txn)
             /\ pc' = "except" /\ error_stage' = "commit"
             /\ UNCHANGED positional_index
    /\ UNCHANGED <<fvars, encryption_key, aes_key, index_data, spark, spark_stops,
                   decrypt_calls, tokenize_calls, conn, cursor_pos, write_attempts>>
    /\ JobUnchanged /\ MainUnchangedDb

\* lines 195-222: the statistics queries, then cursor.close(), conn.close()
Stats ==
    /\ pc = "stats"
    /\ \E ok \in BOOLEAN :
        IF ok
        THEN /\ conn' = "closed" /\ pc' = "finally"
             /\ UNCHANGED <<error_stage, txn>>
        ELSE /\ txn' = DbAbort(txn)
             /\ pc' = "except" /\ error_stage' = "stats"
             /\ UNCHANGED conn
    /\ UNCHANGED <<fvars, encryption_key, aes_key, index_data, spark, spark_stops,
                   decrypt_calls, tokenize_calls, positional_index, cursor_pos,
                   write_attempts>>
    /\ JobUnchanged /\ MainUnchangedDb

\* lines 228-231: print the error and the traceback
Except ==
    /\ pc = "except"
    /\ pc' = "finally"
    /\ UNCHANGED <<fvars, encryption_key, aes_key, index_data, error_stage, spark,
                   spark_stops, decrypt_calls, tokenize_calls>>
    /\ JobUnchanged /\ DbWriteUnchanged /\ MainUnchangedDb

\* lines 232-234
Finally ==
    /\ pc = "finally"
    /\ spark' = "stopped" /\ spark_stops' = spark_stops + 1
    /\ pc' = "returned"
    /\ UNCHANGED <<fvars, encryption_key, aes_key, index_data, error_stage,
                   decrypt_calls, tokenize_calls>>
    /\ JobUnchanged /\ DbWriteUnchanged /\ MainUnchangedDb

\* the interpreter ends (line 237 returns, or the RuntimeError of line 82
\* ends it): a connection still open is dropped and the server rolls its
\* transaction back
ProcessExit ==
    /\ pc \in {"returned", "raised"}
    /\ pc' = "exited"
    /\ IF conn = "open"
       THEN conn' = "dropped" /\ txn' = IdleTxn
       ELSE UNCHANGED <<conn, txn>>
    /\ UNCHANGED <<fvars, encryption_key, aes_key, index_data, error_stage, spark,
                   spark_stops, decrypt_calls, tokenize_calls, positional_index,
                   cursor_pos, write_attempts>>
    /\ JobUnchanged /\ MainUnchangedDb

FIdle ==
    /\ fpc = "off" /\ arg_key = <<>> /\ key_out = <<>>
    /\ arg_text = None /\ tokens_out = <<>> /\ index_out = <<>>

Init ==
    /\ FIdle
    /\ pc = "start"
    /\ encryption_key \in {<<>>, Secret, WrongSecret}
    /\ aes_key = <<>>
    /\ index_data = <<>>
    /\ cursor_pos = 0
    /\ error_stage = "none"
    /\ spark = "none"
    /\ count_done = {} /\ count_pass = {} /\ map_done = {}
    /\ map_out = [d \in DocIds |-> <<>>]
    /\ documents \in Collections
    /\ positional_index \in PreRunTables
    /\ pre_run = positional_index
    /\ txn = IdleTxn
    /\ conn = "none"
    /\ decrypt_calls = [d \in DocIds |-> 0]
    /\ tokenize_calls = [d \in DocIds |-> 0]
    /\ write_attempts = 0
    /\ spark_stops = 0

Next ==
    \/ Start
    \/ LoadAndCount
    \/ \E d \in DocIds : CountTask(d)
    \/ CountFinish
    \/ \E d \in DocIds : MapTask(d)
    \/ CollectFinish
    \/ Connect
    \/ Delete
    \/ InsertPage
    \/ Commit
    \/ Stats
    \/ Except
    \/ Finally
    \/ ProcessExit

Spec == Init /\ [][Next]_vars

\* ------------------------------------------------------ function harnesses
MIdle ==
    /\ pc = "off" /\ encryption_key = <<>> /\ aes_key = <<>> /\ index_data = <<>>
    /\ cursor_pos = 0 /\ error_stage = "none" /\ spark = "none"
    /\ count_done = {} /\ count_pass = {} /\ map_done = {}
    /\ map_out = [d \in DocIds |-> <<>>]
    /\ documents = <<>> /\ positional_index = {} /\ pre_run = {}
    /\ txn = IdleTxn /\ conn = "none"
    /\ decrypt_calls = [d \in DocIds |-> 0] /\ tokenize_calls = [d \in DocIds |-> 0]
    /\ write_attempts = 0 /\ spark_stops = 0

\* secrets: a run of one character followed by a run of another, over
\* characters of 1, 2 and 3 UTF-8 bytes ('a', U+00E9, U+20AC)
KeyChars == {97, 233, 8364}
KeySecrets ==
    { Repeat(c1, n1) \o Repeat(c2, n2) :
        <<c1, n1, c2, n2>> \in KeyChars \X (0..MaxRun) \X KeyChars \X (0..MaxRun) }

InitKey ==
    /\ MIdle
    /\ fpc = "key_in"
    /\ arg_key \in KeySecrets
    /\ key_out = <<>>
    /\ arg_text = None /\ tokens_out = <<>> /\ index_out = <<>>

ApplyNormalizeKey ==
    /\ fpc = "key_in"
    /\ key_out' = normalize_key(arg_key)
    /\ fpc' = "key_done"
    /\ UNCHANGED <<arg_key, arg_text, tokens_out, index_out, mvars>>

NextKey == ApplyNormalizeKey

SpecKey == InitKey /\ [][NextKey]_vars

\* texts: 'A', 'b', '0', ' ', U+00E9, U+212A KELVIN SIGN, U+0130
TextChars == {65, 98, 48, 32, 233, 8490, 304}
Texts == {None} \cup {Str(s) : s \in UNION {[1..n -> TextChars] : n \in 0..MaxTextLen}}

InitText ==
    /\ MIdle
    /\ fpc = "text_in"
    /\ arg_text \in Texts
    /\ tokens_out = <<>> /\ index_out = <<>>
    /\ arg_key = <<>> /\ key_out = <<>>

ApplyTokenize ==
    /\ fpc = "text_in"
    /\ tokens_out' = tokenize_text(arg_text)
    /\ fpc' = "tokenized"
    /\ UNCHANGED <<arg_key, key_out, arg_text, index_out, mvars>>

ApplyBuild ==
    /\ fpc = "tokenized"
    /\ index_out' = build_positional_index(arg_text)
    /\ fpc' = "built"
    /\ UNCHANGED <<arg_key, key_out, arg_text, tokens_out, mvars>>

NextText == ApplyTokenize \/ ApplyBuild

SpecText == InitText /\ [][NextText]_vars

\* ================================================================== claims
\* the ascending sequence of a finite set of integers
RECURSIVE AscSeq(_)
AscSeq(S) ==
    IF S = {} THEN <<>>
    ELSE LET m == CHOOSE x \in S : \A y \in S : x <= y
         IN <<m>> \o AscSeq(S \ {m})

\* 0-based indices of term in toks
Occurrences(toks, term) == {i - 1 : i \in {j \in 1..Len(toks) : toks[j] = term}}

WritePhase == {"delete", "insert", "commit"}
AfterMain == {"returned", "exited"}
Committed == pc = "stats" \/ error_stage = "stats" \/ conn = "closed"

\* ---- C1
\* C1: a run that fails in the write phase (at the DELETE, at a page of the
\* bulk insert, or at commit) leaves the stored positional_index equal to
\* its pre-run content, and no transaction survives the process.
C1_WriteFailureKeepsPreRun ==
    error_stage \in WritePhase =>
        /\ positional_index = pre_run
        /\ (pc = "exited" => txn = IdleTxn)

\* a non-empty table, a first page inserted, the second page failed
C1_Witness ==
    /\ pc = "exited" /\ error_stage = "insert"
    /\ cursor_pos > 0 /\ pre_run # {}
    /\ positional_index = pre_run

\* ---- C2
ClaimContent(d) ==
    decrypt_document(documents[d].encrypted_content, documents[d].iv,
                     documents[d].auth_tag, SourceKey).value

ClaimRows(d) ==
    LET toks == tokenize_text(Str(ClaimContent(d)))
    IN { <<term, d, AscSeq(Occurrences(toks, term))>> : term \in Range(toks) }

ClaimIndex ==
    UNION { ClaimRows(d) : d \in {e \in DOMAIN documents : ClaimContent(e) # <<>>} }

\* C2: after a run that commits, positional_index holds exactly one row per
\* document with non-empty content and distinct term of it, with the full
\* ascending 0-based position list, and nothing else.
C2_CommittedIndexIsExact ==
    Committed =>
        /\ positional_index = ClaimIndex
        /\ \A r, q \in positional_index : SameKey(r, q) => r = q

\* stale rows before the run, a document with a repeated term, and a
\* document without content
C2_Witness ==
    /\ pc = "exited" /\ conn = "closed"
    /\ pre_run = StaleRows
    /\ \E d \in DOMAIN documents : Cardinality(ClaimRows(d)) = 2
    /\ \E d \in DOMAIN documents : documents[d].iv = <<>>
    /\ positional_index # {}

\* ---- C3
FailsDecryption(d) ==
    /\ documents[d].encrypted_content # <<>>
    /\ documents[d].iv # <<>>
    /\ documents[d].auth_tag # <<>>
    /\ \/ documents[d].auth_tag # GenuineTag
       \/ encryption_key # Secret
       \/ ~Utf8Valid(GcmDecrypt(SourceKey, documents[d].encrypted_content))

\* C3: when some document with all three fields present fails tag
\* verification or UTF-8 decoding, the run aborts before the write phase:
\* no connection, no DELETE, no INSERT, the table keeps its pre-run content.
C3_DecryptFailureAbortsRun ==
    (\E d \in DOMAIN documents : FailsDecryption(d)) =>
        /\ pc \notin {"collecting", "connect", "delete", "insert", "commit", "stats"}
        /\ conn = "none" /\ txn = IdleTxn /\ write_attempts = 0
        /\ index_data = <<>>
        /\ positional_index = pre_run
        /\ (pc \in AfterMain /\ spark # "none" => error_stage \in {"load", "decrypt"})

\* a valid document was decrypted, another one failed, the run is over
C3_Witness ==
    /\ pc = "exited" /\ error_stage = "decrypt"
    /\ encryption_key = Secret
    /\ count_done # {}
    /\ \E d \in DOMAIN documents : FailsDecryption(d)
    /\ pre_run # {} /\ positional_index = pre_run

\* ---- C4
EmptyContent(d) ==
    \/ documents[d].encrypted_content = <<>>
    \/ documents[d].iv = <<>>
    \/ documents[d].auth_tag = <<>>

\* C4: with no document, or only documents of empty content, main ends
\* early without error and without the write phase.
C4_NothingToIndexIsNoOp ==
    (\A d \in DOMAIN documents : EmptyContent(d)) =>
        /\ pc \notin {"collecting", "connect", "delete", "insert", "commit", "stats",
                      "except"} \/ error_stage = "load"
        /\ error_stage \in {"none", "load"}
        /\ conn = "none" /\ txn = IdleTxn /\ write_attempts = 0
        /\ positional_index = pre_run

\* documents exist, all of empty content; the run ended by the early return
C4_Witness ==
    /\ pc = "exited" /\ error_stage = "none" /\ spark = "stopped"
    /\ DOMAIN documents = DocIds
    /\ \A d \in DOMAIN documents : EmptyContent(d)
    /\ count_done = DocIds
    /\ pre_run # {} /\ positional_index = pre_run

\* ---- C5
ClaimKey(secret, pad) ==
    LET e == encode_utf8(secret)
    IN IF Len(e) < 32 THEN e \o [i \in 1..(32 - Len(e)) |-> pad]
       ELSE SubSeq(e, 1, 32)

\* C5 as stated: 32 bytes, short secrets right-padded with the byte 0
C5_ZeroBytePadded ==
    fpc = "key_done" => Len(key_out) = 32 /\ key_out = ClaimKey(arg_key, 0)

\* C5 amended: 32 bytes, short secrets right-padded with the byte 48, the
\* ASCII digit '0'; longer ones cut to their first 32 bytes
C5_AsciiZeroPadded ==
    fpc = "key_done" => Len(key_out) = 32 /\ key_out = ClaimKey(arg_key, 48)

\* a secret of 5 bytes: 27 fill bytes follow it
C5_Witness ==
    /\ fpc = "key_done"
    /\ Len(encode_utf8(arg_key)) = 5
    /\ \A i \in 6..32 : key_out[i] = 48

\* ---- C6
\* C6: after a fatal error inside main, the Spark session is stopped and
\* the database connection, if opened, is closed when main returns.
C6_ResourcesReleasedOnError ==
    (pc = "returned" /\ error_stage # "none") =>
        /\ spark = "stopped"
        /\ conn \in {"none", "closed"}

\* ---- C7
\* C7: the connection, the DELETE and every insert come only after the
\* collect job has finished for every document; what the transaction holds
\* comes from the collected batch.
C7_WriteAfterBarrier ==
    (conn # "none" \/ write_attempts > 0 \/ txn # IdleTxn \/ positional_index # pre_run) =>
        /\ map_done = DOMAIN documents
        /\ count_done = DOMAIN documents
        /\ index_data = ConcatFrom(map_out, 1)
        /\ txn.rows \subseteq Range(insert_data)

\* two documents, the first page of their rows inserted
C7_Witness ==
    /\ pc = "insert" /\ cursor_pos > 0
    /\ DOMAIN documents = DocIds
    /\ \A d \in DocIds : map_out[d] # <<>>

\* ---- C8
\* C8: build_positional_index gives one entry per distinct token, in
\* first-seen order, each with the strictly increasing list of exactly the
\* 0-based indices of the token; no token gives no entry.
C8_IndexMatchesTokens ==
    fpc = "built" =>
        LET toks == tokens_out
            n == Len(index_out)
        IN /\ \A i, j \in 1..n : i # j => index_out[i][1] # index_out[j][1]
           /\ {index_out[i][1] : i \in 1..n} = Range(toks)
           /\ \A i \in 1..n :
                LET positions == index_out[i][2]
                    occ == Occurrences(toks, index_out[i][1])
                IN /\ \A k \in 1..(Len(positions) - 1) : positions[k] < positions[k + 1]
                   /\ Len(positions) = Cardinality(occ)
                   /\ Range(positions) = occ
           /\ \A i, j \in 1..n : i < j => index_out[i][2][1] < index_out[j][2][1]
           /\ (toks = <<>> => index_out = <<>>)
           /\ (~Truthy(arg_text) => index_out = <<>>)

\* two terms, one of them repeated
C8_Witness ==
    /\ fpc = "built"
    /\ Len(index_out) = 2
    /\ Len(index_out[1][2]) = 2

\* ---- C9
ClaimAlnum(c) == c \in 65..90 \/ c \in 97..122 \/ c \in 48..57
ClaimLower(c) == IF c \in 65..90 THEN c + 32 ELSE c

\* the maximal runs of ASCII letters and digits of the text as given
RECURSIVE ClaimRuns(_, _)
ClaimRuns(s, cur) ==
    IF s = <<>> THEN (IF cur = <<>> THEN <<>> ELSE <<cur>>)
    ELSE IF ClaimAlnum(Head(s)) THEN ClaimRuns(Tail(s), Append(cur, ClaimLower(Head(s))))
    ELSE (IF cur = <<>> THEN <<>> ELSE <<cur>>) \o ClaimRuns(Tail(s), <<>>)

\* C9: tokenize_text returns the lowercased maximal runs of ASCII letters
\* and digits of the original text; any other character only separates.
C9_AsciiRunsOfOriginal ==
    fpc \in {"tokenized", "built"} =>
        tokens_out = IF arg_text.none THEN <<>> ELSE ClaimRuns(arg_text.s, <<>>)

\* ---- C10
\* C10: in one run each document is decrypted at most once and tokenized
\* at most once, and the write is attempted at most once.
C10_EachStageOnce ==
    /\ \A d \in DocIds : decrypt_calls[d] <= 1 /\ tokenize_calls[d] <= 1
    /\ write_attempts <= 1

====
